---------------------------- MODULE Spec2Model ----------------------------
(***************************************************************************)
(* The two source-rewrite scripts of the repository:                       *)
(*   scripts/fix-logger-calls.py  (fix_logger_call, fix_file)              *)
(*   scripts/migrate-params.py    (migrate_file and its helpers)           *)
(*                                                                         *)
(* A text is a sequence of chunks.  A chunk is one whitespace character,   *)
(* one punctuation character, or a run of word characters ([A-Za-z0-9_]).  *)
(* The character loops and the regular expressions of the scripts are      *)
(* translated chunk by chunk: a character class is the set of chunks made  *)
(* of its characters, a literal is the sequence of its chunks.             *)
(***************************************************************************)
EXTENDS Integers, Sequences, FiniteSets, TLC

VARIABLES
    script,            \* which script this execution runs
    disk,              \* the text stored in the file
    original_content,  \* the text the last driver call read
    content,           \* the in-memory text at the end of the last driver call
    outcome,           \* what the last driver call returned
    written,           \* whether the last driver call wrote the file
    runs,              \* driver calls so far
    sites,             \* the call sites re.sub matched in the last fix_file call
    variant,           \* the branch migrate_file took in its last call
    param_name,        \* detect_param_name's result in the last migrate_file call
    args,              \* tokenizer: the argument text (match.group(2))
    pos,               \* tokenizer: index of the next character of args
    tok,               \* tokenizer: the loop's local variables
    files,             \* main: the file list, each file with its text and fault
    file_index,        \* main: index of the file the loop is at
    fixed_count,       \* fix-logger-calls main: files fix_file returned True for
    printed,           \* fix-logger-calls main: the verdict lines, one per call
    modified_files,    \* migrate-params main: files migrate_file returned True for
    skipped_files,     \* migrate-params main: the other files
    stage              \* main: where the batch is

vars == <<script, disk, original_content, content, outcome, written, runs,
          sites, variant, param_name, args, pos, tok, files, file_index,
          fixed_count, printed, modified_files, skipped_files, stage>>

driverVars == <<script, disk, original_content, content, outcome, written,
                runs, sites, variant, param_name>>

tokVars == <<args, pos, tok>>

batchVars == <<files, file_index, fixed_count, printed, modified_files,
               skipped_files, stage>>

(***************************************************************************)
(* Bounds of the model.                                                    *)
(***************************************************************************)
MaxArgLen == 4

MaxRuns == 2

MaxFiles == 2

(***************************************************************************)
(* Chunks.                                                                 *)
(***************************************************************************)
\* the backquote character (a string literal cannot hold it)
Backtick == "BACKTICK"

None == "None"

Whitespace == {" ", "\n", "\t"}

Punct == {",", "(", ")", "{", "}", "'", "\"", Backtick, ".", ":", ";", "=",
          "<", ">", "?", "/", "[", "]"}

DigitChunks == {"1", "2", "200"}

IsSpace(c) == c \in Whitespace

\* \w+ : a run of word characters
IsWord(c) == c \notin (Whitespace \cup Punct)

RECURSIVE Join(_, _)
Join(ss, sep) ==
    IF ss = <<>> THEN <<>>
    ELSE IF Len(ss) = 1 THEN ss[1]
    ELSE ss[1] \o sep \o Join(Tail(ss), sep)

\* str.strip(): leading and trailing whitespace removed
strip(s) ==
    LET keep == {i \in 1..Len(s) : ~IsSpace(s[i])}
    IN  IF keep = {} THEN <<>>
        ELSE LET lo == CHOOSE i \in keep : \A j \in keep : i <= j
                 hi == CHOOSE i \in keep : \A j \in keep : i >= j
             IN  SubSeq(s, lo, hi)

\* s[i .. i+Len(lit)-1] = lit
LitAt(s, i, lit) ==
    /\ i >= 1
    /\ i + Len(lit) - 1 <= Len(s)
    /\ \A k \in 1..Len(lit) : s[i + k - 1] = lit[k]

(***************************************************************************)
(* fix-logger-calls.py: the tokenizer loop of fix_logger_call.             *)
(***************************************************************************)
QuoteChars == {"\"", "'", Backtick}

TokInit ==
    [arg_parts |-> <<>>, current_arg |-> <<>>, paren_depth |-> 0,
     brace_depth |-> 0, in_string |-> FALSE, string_char |-> None]

\* a comma branch that looked at the string state and the parentheses only
IsSeparatorIgnoringBraces(t, char) ==
    /\ char = ","
    /\ ~t.in_string
    /\ t.paren_depth = 0

\* the comma branch of the loop is taken
IsSeparator(t, char) ==
    /\ char = ","
    /\ ~t.in_string
    /\ t.paren_depth = 0
    /\ t.brace_depth = 0

\* one iteration of `for char in args`
TokStep(t, char) ==
    IF char \in QuoteChars /\ ~t.in_string
    THEN [t EXCEPT !.in_string = TRUE, !.string_char = char,
                   !.current_arg = Append(@, char)]
    ELSE IF char = t.string_char /\ t.in_string
    THEN [t EXCEPT !.in_string = FALSE, !.string_char = None,
                   !.current_arg = Append(@, char)]
    ELSE IF char = "(" /\ ~t.in_string
    THEN [t EXCEPT !.paren_depth = @ + 1, !.current_arg = Append(@, char)]
    ELSE IF char = ")" /\ ~t.in_string
    THEN [t EXCEPT !.paren_depth = @ - 1, !.current_arg = Append(@, char)]
    ELSE IF char = "{" /\ ~t.in_string
    THEN [t EXCEPT !.brace_depth = @ + 1, !.current_arg = Append(@, char)]
    ELSE IF char = "}" /\ ~t.in_string
    THEN [t EXCEPT !.brace_depth = @ - 1, !.current_arg = Append(@, char)]
    ELSE IF IsSeparator(t, char)
    THEN [t EXCEPT !.arg_parts = Append(@, strip(t.current_arg)),
                   !.current_arg = <<>>]
    ELSE [t EXCEPT !.current_arg = Append(@, char)]

\* after the loop: `if current_arg.strip(): arg_parts.append(...)`
TokFinish(t) ==
    IF strip(t.current_arg) # <<>>
    THEN [t EXCEPT !.arg_parts = Append(@, strip(t.current_arg))]
    ELSE t

RECURSIVE TokScan(_, _, _)
TokScan(t, a, i) ==
    IF i > Len(a) THEN t ELSE TokScan(TokStep(t, a[i]), a, i + 1)

\* arg_parts as fix_logger_call has it at line 49
split_args(a) == TokFinish(TokScan(TokInit, a, 1)).arg_parts

(***************************************************************************)
(* fix-logger-calls.py: the rewrite of one call site.                      *)
(***************************************************************************)
\* re.match(r'^[a-zA-Z_][a-zA-Z0-9_]*$', arg)
IsIdentifier(arg) ==
    /\ arg # <<>>
    /\ \A i \in 1..Len(arg) : IsWord(arg[i])
    /\ arg[1] \notin DigitChunks

\* f'arg{i}: {arg}': the numbering left at the 0-based index
NumberedEntryZeroBased(i, arg) == <<"arg" \o ToString(i), ":", " ">> \o arg

\* f'arg{i + 1}: {arg}' for the 0-based index i
NumberedEntry(i, arg) == <<"arg" \o ToString(i + 1), ":", " ">> \o arg

\* metadata_entries
metadata_entries(rest_args) ==
    [i \in 1..Len(rest_args) |->
        LET arg == strip(rest_args[i])
        IN  IF IsIdentifier(arg) THEN arg ELSE NumberedEntry(i - 1, arg)]

\* second_arg.startswith('{') and second_arg.endswith('}')
IsObjectLiteral(second_arg) ==
    /\ second_arg # <<>>
    /\ second_arg[1] = "{"
    /\ second_arg[Len(second_arg)] = "}"

\* fix_logger_call(match): level = group(1), a = group(2), whole = group(0)
fix_logger_call(level, a, whole) ==
    LET arg_parts == split_args(a)
    IN  IF Len(arg_parts) <= 1 THEN whole
        ELSE IF Len(arg_parts) = 2 /\ IsObjectLiteral(strip(arg_parts[2]))
        THEN whole
        ELSE LET message == arg_parts[1]
                 rest_args == Tail(arg_parts)
                 metadata_obj == <<"{", " ">>
                                 \o Join(metadata_entries(rest_args), <<",", " ">>)
                                 \o <<" ", "}">>
             IN  <<"log", ".", level, "(">> \o message \o <<",", " ">>
                 \o metadata_obj \o <<")">>

(***************************************************************************)
(* The regular expressions of migrate-params.py, as sequences of items.    *)
(* Every greedy or optional item below is followed, in the patterns that   *)
(* use it, by an item that cannot match what it consumed (or by the end of *)
(* the pattern), so it takes its longest run and never gives any back.     *)
(***************************************************************************)
Lit(c) == [k |-> "lit", c |-> c, has |-> None]

\* \s*
SP0 == [k |-> "sp0", c |-> None, has |-> None]

\* \s+
SP1 == [k |-> "sp1", c |-> None, has |-> None]

\* \w+
Word == [k |-> "word", c |-> None, has |-> None]

\* c?
Opt(c) == [k |-> "opt", c |-> c, has |-> None]

\* a character class of single-character chunks, such as ["\']
OneOf(S) == [k |-> "oneof", c |-> S, has |-> None]

\* [^c]* before a literal c
Until(c) == [k |-> "until", c |-> c, has |-> None]

\* [^c]*w[^c]* before a literal c
UntilHas(c, w) == [k |-> "until", c |-> c, has |-> w]

\* [^c]*\bw\b[^c]* before a literal c
UntilHasWord(c, w) == [k |-> "untilb", c |-> c, has |-> w]

\* \b
WB == [k |-> "wb", c |-> None, has |-> None]

\* \s*\n at the end of a pattern
SpNl == [k |-> "spnl", c |-> None, has |-> None]

IsWordAt(s, i) == i >= 1 /\ i <= Len(s) /\ IsWord(s[i])

\* the first index at or after i whose chunk is not whitespace
RECURSIVE SkipSpaces(_, _)
SkipSpaces(s, i) ==
    IF i > Len(s) \/ ~IsSpace(s[i]) THEN i ELSE SkipSpaces(s, i + 1)

\* the first index at or after i whose chunk is not a word chunk
RECURSIVE SkipWord(_, _)
SkipWord(s, i) ==
    IF i > Len(s) \/ ~IsWord(s[i]) THEN i ELSE SkipWord(s, i + 1)

\* the first index at or after i whose chunk is c, 0 if none
IndexOf(s, c, i) ==
    LET hits == {j \in i..Len(s) : s[j] = c}
    IN  IF hits = {} THEN 0
        ELSE CHOOSE j \in hits : \A m \in hits : j <= m

MaxOf(S) == CHOOSE x \in S : \A y \in S : x >= y

\* The index after the match of the one item p at i; 0 when it does not match.
MatchItem(s, i, p) ==
    CASE p.k = "lit" -> IF i <= Len(s) /\ s[i] = p.c THEN i + 1 ELSE 0
      [] p.k = "oneof" -> IF i <= Len(s) /\ s[i] \in p.c THEN i + 1 ELSE 0
      [] p.k = "opt" -> IF i <= Len(s) /\ s[i] = p.c THEN i + 1 ELSE i
      [] p.k = "sp0" -> SkipSpaces(s, i)
      [] p.k = "sp1" ->
            LET j == SkipSpaces(s, i) IN IF j > i THEN j ELSE 0
      [] p.k = "word" ->
            LET j == SkipWord(s, i) IN IF j > i THEN j ELSE 0
      [] p.k = "until" ->
            LET q == IndexOf(s, p.c, i)
            IN  IF q = 0 THEN 0
                ELSE IF p.has # None /\ \A j \in i..(q - 1) : s[j] # p.has
                THEN 0
                ELSE q
      [] p.k = "untilb" ->
            LET q == IndexOf(s, p.c, i)
            IN  IF q = 0 THEN 0
                ELSE IF \A j \in i..(q - 1) :
                            \/ s[j] # p.has
                            \/ IsWordAt(s, j - 1)
                            \/ IsWordAt(s, j + 1)
                THEN 0
                ELSE q
      [] p.k = "wb" -> IF IsWordAt(s, i - 1) # IsWordAt(s, i) THEN i ELSE 0
      [] p.k = "spnl" ->
            LET j == SkipSpaces(s, i)
                nls == {n \in i..(j - 1) : s[n] = "\n"}
            IN  IF nls = {} THEN 0 ELSE MaxOf(nls) + 1

\* The index after the match of pat[k..] that starts at i; 0 when there is none.
RECURSIVE MatchFrom(_, _, _, _)
MatchFrom(s, i, pat, k) ==
    IF i = 0 \/ k > Len(pat) THEN i
    ELSE MatchFrom(s, MatchItem(s, i, pat[k]), pat, k + 1)

Match(s, i, pat) == MatchFrom(s, i, pat, 1)

\* the start of the leftmost match at or after i, 0 when there is none
SearchFrom(s, i, pat) ==
    LET hits == {j \in i..Len(s) : Match(s, j, pat) # 0}
    IN  IF hits = {} THEN 0
        ELSE CHOOSE j \in hits : \A m \in hits : j <= m

\* re.search
Search(s, pat) == SearchFrom(s, 1, pat)

\* re.sub(pat, repl, s) for a fixed replacement text: the matches are taken
\* leftmost first and do not overlap
RECURSIVE SubAllFrom(_, _, _, _)
SubAllFrom(s, i, pat, repl) ==
    LET m == SearchFrom(s, i, pat)
    IN  IF m = 0 THEN SubSeq(s, i, Len(s))
        ELSE SubSeq(s, i, m - 1) \o repl
             \o SubAllFrom(s, Match(s, m, pat), pat, repl)

SubAll(s, pat, repl) == SubAllFrom(s, 1, pat, repl)

\* `lit in s`
Contains(s, lit) == \E i \in 1..Len(s) : LitAt(s, i, lit)

\* s[:at] + ins + s[at:] for the 0-based offset `at`
InsertAt(s, at, ins) == SubSeq(s, 1, at) \o ins \o SubSeq(s, at + 1, Len(s))

(***************************************************************************)
(* fix-logger-calls.py: the call-site pattern and re.sub.                  *)
(***************************************************************************)
\* pattern = r'log\.(error|warn|info|debug)\(([^)]+(?:\([^)]*\))?[^)]*)\)'
Levels == {"error", "warn", "info", "debug"}

\* The index of the ")" that ends a match starting at i, 0 when the pattern
\* does not match at i.  The greedy [^)]+ takes every chunk up to the first
\* ")" (an "(" included), so the optional group, which must start with "(",
\* is tried at a ")" and matches nothing; [^)]* is empty and \) takes that
\* first ")".  With no ")" left in the text nothing shorter matches either.
LogCallEnd(s, i) ==
    IF /\ LitAt(s, i, <<"log", ".">>)
       /\ i + 3 <= Len(s)
       /\ s[i + 2] \in Levels
       /\ s[i + 3] = "("
    THEN LET q == IndexOf(s, ")", i + 4)
         IN  IF q > i + 4 THEN q ELSE 0
    ELSE 0

\* re.sub(pattern, fix_logger_call, content): leftmost matches, not overlapping
RECURSIVE LogSub(_, _)
LogSub(s, i) ==
    IF i > Len(s) THEN <<>>
    ELSE LET e == LogCallEnd(s, i)
         IN  IF e = 0 THEN <<s[i]>> \o LogSub(s, i + 1)
             ELSE fix_logger_call(s[i + 2], SubSeq(s, i + 4, e - 1),
                                  SubSeq(s, i, e))
                  \o LogSub(s, e + 1)

\* The matches re.sub hands to fix_logger_call, in order: the span
\* [start, end] of group(0), group(1), group(2) and what the call returned.
RECURSIVE FindCalls(_, _)
FindCalls(s, i) ==
    IF i > Len(s) THEN <<>>
    ELSE LET e == LogCallEnd(s, i)
         IN  IF e = 0 THEN FindCalls(s, i + 1)
             ELSE <<[start |-> i, end |-> e, level |-> s[i + 2],
                     rawArguments |-> SubSeq(s, i + 4, e - 1),
                     replacement |->
                         fix_logger_call(s[i + 2], SubSeq(s, i + 4, e - 1),
                                         SubSeq(s, i, e))]>>
                  \o FindCalls(s, e + 1)

(***************************************************************************)
(* migrate-params.py: the classifier helpers.                              *)
(***************************************************************************)
detect_param_name(s) ==
    IF Contains(s, <<"[", "trackingNumber", "]">>) \/ Contains(s, <<"trackingNumber">>)
    THEN "trackingNumber"
    ELSE "id"

\* use(params)
UnwrapCall == <<"use", "(", "params", ")">>

already_migrated(s) ==
    \/ Contains(s, UnwrapCall)
    \/ Contains(s, <<"const", " ", "resolvedParams", " ", "=", " ">> \o UnwrapCall)

\* params:\s*\{
P_params_type == <<Lit("params"), Lit(":"), SP0, Lit("{")>>

\* }\s*{\s*params\s*}:
P_params_destructured ==
    <<Lit("}"), SP0, Lit("{"), SP0, Lit("params"), SP0, Lit("}"), Lit(":")>>

\* {\s*params\s*}: , the tail of the next pattern
P_destructured_params ==
    <<Lit("{"), SP0, Lit("params"), SP0, Lit("}"), Lit(":")>>

\* function.*\{\s*params\s*}:  (.* stays on the line of `function`)
function_params(s) ==
    \E i \in 1..Len(s) :
        /\ s[i] = "function"
        /\ LET nl == IndexOf(s, "\n", i + 1)
               lineEnd == IF nl = 0 THEN Len(s) ELSE nl
           IN  \E j \in (i + 1)..lineEnd : Match(s, j, P_destructured_params) # 0

uses_params_prop(s) ==
    \/ Search(s, P_params_type) # 0
    \/ Search(s, P_params_destructured) # 0
    \/ function_params(s)

\* 'useParams()' in content
uses_hook(s) == Contains(s, <<"useParams", "(", ")">>)

(***************************************************************************)
(* migrate-params.py, step 1: add 'use' to the React import.               *)
(***************************************************************************)
has_react_import(s) ==
    \/ Contains(s, <<"from", " ", "\"", "react", "\"">>)
    \/ Contains(s, <<"from", " ", "'", "react", "'">>)

ReactQuote == OneOf({"\"", "'"})

\* import\s*\{[^}]*\buse\b[^}]*\}\s*from\s*["\']react["\']
P_use_imported ==
    <<Lit("import"), SP0, Lit("{"), UntilHasWord("}", "use"), Lit("}"), SP0,
      Lit("from"), SP0, ReactQuote, Lit("react"), ReactQuote>>

\* group 1 of the next pattern: (import\s*\{)
P_import_open == <<Lit("import"), SP0, Lit("{")>>

\* (import\s*\{)([^}]*)(}\s*from\s*["\']react["\'])
P_react_import ==
    P_import_open \o
    <<Until("}"), Lit("}"), SP0, Lit("from"), SP0, ReactQuote, Lit("react"),
      ReactQuote>>

\* re.sub(..., r'\1 use, \2\3', content, count=1)
add_use_import(s) ==
    IF has_react_import(s) /\ Search(s, P_use_imported) = 0
    THEN LET i == Search(s, P_react_import)
         IN  IF i = 0 THEN s
             ELSE InsertAt(s, Match(s, i, P_import_open) - 1,
                           <<" ", "use", ",", " ">>)
    ELSE s

(***************************************************************************)
(* migrate-params.py, step 2: the params prop pattern.                     *)
(***************************************************************************)
\* params:\s*\{\s*NAME:\s*string\s*\}
P_annotation(name) ==
    <<Lit("params"), Lit(":"), SP0, Lit("{"), SP0, Lit(name), Lit(":"), SP0,
      Lit("string"), SP0, Lit("}")>>

\* params: Promise<{ NAME: string }>
PromiseAnnotation(name) ==
    <<"params", ":", " ", "Promise", "<", "{", " ", name, ":", " ", "string",
      " ", "}", ">">>

\* export\s+default\s+function\s+\w+
P_export_default_function ==
    <<Lit("export"), SP1, Lit("default"), SP1, Lit("function"), SP1, Word>>

\* (export\s+default\s+function\s+\w+\s*\([^)]*params[^)]*\)\s*\{)
P_component_with_params ==
    P_export_default_function \o
    <<SP0, Lit("("), UntilHas(")", "params"), Lit(")"), SP0, Lit("{")>>

\* f'{indent}const {{ {param_name} }} = use(params);\n'
unwrap_statement(name) ==
    <<" ", " ", "const", " ", "{", " ", name, " ", "}", " ", "=", " ">>
    \o UnwrapCall \o <<";", "\n">>

\* The text with the unwrap statement inserted after the first newline that
\* follows the match of pat (func_end = match.end(), content.find('\n', ...)).
insert_unwrap(s, pat, name) ==
    LET i == Search(s, pat)
    IN  IF i = 0 THEN s
        ELSE LET func_end == Match(s, i, pat) - 1
                 next_newline == IndexOf(s, "\n", func_end + 1)
             IN  IF next_newline = 0 THEN s
                 ELSE InsertAt(s, next_newline, unwrap_statement(name))

\* \bparams\.NAME\b
P_params_member(name) == <<WB, Lit("params"), Lit("."), Lit(name), WB>>

migrate_params_prop(s, name) ==
    LET updated == SubAll(s, P_annotation(name), PromiseAnnotation(name))
    IN  IF Search(updated, P_component_with_params) = 0 THEN updated
        ELSE SubAll(insert_unwrap(updated, P_component_with_params, name),
                    P_params_member(name), <<name>>)

(***************************************************************************)
(* migrate-params.py, step 3: the useParams() hook pattern.                *)
(***************************************************************************)
\* ,?\s*useParams\s*
P_useParams_after_comma == <<Opt(","), SP0, Lit("useParams"), SP0>>

\* useParams\s*,?\s*
P_useParams_before_comma == <<Lit("useParams"), SP0, Opt(","), SP0>>

\* const\s+params\s*=\s*useParams\(\);\s*\n
P_useParams_call ==
    <<Lit("const"), SP1, Lit("params"), SP0, Lit("="), SP0, Lit("useParams"),
      Lit("("), Lit(")"), Lit(";"), SpNl>>

\* const\s+VAR\s*=\s*params\.FIELD\s+as\s+string;\s*\n  (params\?\. when opt)
P_extraction(var, opt, field) ==
    <<Lit("const"), SP1, Lit(var), SP0, Lit("="), SP0, Lit("params")>>
    \o (IF opt THEN <<Lit("?")>> ELSE <<>>)
    \o <<Lit("."), Lit(field), SP1, Lit("as"), SP1, Lit("string"), Lit(";"),
         SpNl>>

LegacyIds ==
    <<"taskId", "orderId", "paymentId", "invoiceId", "shipmentId",
      "inspectionId", "jobId", "documentId">>

old_id_patterns(name) ==
    <<P_extraction(name, FALSE, name), P_extraction(name, TRUE, name)>>
    \o [i \in 1..Len(LegacyIds) |-> P_extraction(LegacyIds[i], FALSE, "id")]

MinOf(S) == CHOOSE x \in S : \A y \in S : x <= y

\* content = re.sub(pattern, '', content) for the patterns k.. in order.  A
\* pattern without a match leaves the text as it is, so the next one applied
\* is the first that matches.
RECURSIVE remove_patterns(_, _, _)
remove_patterns(s, pats, k) ==
    LET live == {n \in k..Len(pats) : Search(s, pats[n]) # 0}
    IN  IF live = {} THEN s
        ELSE remove_patterns(SubAll(s, pats[MinOf(live)], <<>>), pats,
                             MinOf(live) + 1)

\* export\s+const\s+dynamic\s*=
P_dynamic_head ==
    <<Lit("export"), SP1, Lit("const"), SP1, Lit("dynamic"), SP0, Lit("=")>>

\* (export\s+const\s+dynamic\s*=.*?;\s*\n+)?(export\s+default\s+function\s+\w+)
\* matched at i with group 1 taking part: the start of group 2, 0 if none.
\* The lazy .*? (DOTALL) stops at the first ";" that is followed by
\* whitespace ending in a newline and then by group 2.
dynamic_then_function(s, i) ==
    LET a == Match(s, i, P_dynamic_head)
    IN  IF a = 0 THEN 0
        ELSE LET semis == {p \in a..Len(s) :
                            /\ s[p] = ";"
                            /\ LET g == SkipSpaces(s, p + 1)
                               IN  /\ g > p + 1
                                   /\ s[g - 1] = "\n"
                                   /\ Match(s, g, P_export_default_function) # 0}
             IN  IF semis = {} THEN 0
                 ELSE SkipSpaces(s, (CHOOSE p \in semis : \A r \in semis : p <= r) + 1)

\* func_match.start(2) of the leftmost match, as an index; 0 when no match
interface_start(s) ==
    LET viaDynamic == {i \in 1..Len(s) : dynamic_then_function(s, i) # 0}
        plain == {i \in 1..Len(s) : Match(s, i, P_export_default_function) # 0}
        all == viaDynamic \cup plain
    IN  IF all = {} THEN 0
        ELSE LET i == CHOOSE m \in all : \A n \in all : m <= n
             IN  IF i \in viaDynamic THEN dynamic_then_function(s, i) ELSE i

interface_code(name) ==
    <<"interface", " ", "PageProps", " ", "{", "\n",
      " ", " ">> \o PromiseAnnotation(name) \o <<";", "\n",
      "}", "\n",
      "\n">>

\* (export\s+default\s+function\s+\w+)\(\)
P_empty_signature == P_export_default_function \o <<Lit("("), Lit(")")>>

\* re.sub(..., r'\1({ params }: PageProps)', content, count=1)
rewrite_signature(s) ==
    LET i == Search(s, P_empty_signature)
    IN  IF i = 0 THEN s
        ELSE LET e == Match(s, i, P_empty_signature)
             IN  SubSeq(s, 1, e - 3)
                 \o <<"(", "{", " ", "params", " ", "}", ":", " ", "PageProps", ")">>
                 \o SubSeq(s, e, Len(s))

\* (export\s+default\s+function\s+\w+\([^)]*\)\s*\{)
P_component ==
    P_export_default_function \o
    <<Lit("("), Until(")"), Lit(")"), SP0, Lit("{")>>

\* the value every legacy identifier is renamed to (id_replacements)
LegacyReplacement == "id"

\* for old_var, new_var in id_replacements.items(): re.sub(rf'\b{old_var}\b', ...)
\* in order; an identifier that does not occur leaves the text as it is.
RECURSIVE rename_legacy(_, _)
rename_legacy(s, k) ==
    LET live == {n \in k..Len(LegacyIds) : Contains(s, <<LegacyIds[n]>>)}
    IN  IF live = {} THEN s
        ELSE rename_legacy(SubAll(s, <<WB, Lit(LegacyIds[MinOf(live)]), WB>>,
                                  <<LegacyReplacement>>), MinOf(live) + 1)

\* lines 97-125: the import entry, the call and the extractions are removed,
\* each by a re.sub with the empty replacement
remove_hook(s, name) ==
    remove_patterns(s,
                    <<P_useParams_after_comma, P_useParams_before_comma,
                      P_useParams_call>> \o old_id_patterns(name),
                    1)

\* lines 127-166: the interface, the signature and the unwrap statement
add_params_prop(s, name) ==
    LET f == interface_start(s)
    IN  IF f = 0 THEN s
        ELSE insert_unwrap(
                 rewrite_signature(InsertAt(s, f - 1, interface_code(name))),
                 P_component, name)

migrate_hook(s, name) ==
    rename_legacy(add_params_prop(remove_hook(s, name), name), 1)

(***************************************************************************)
(* migrate-params.py: migrate_file from the text read to the text it would *)
(* write and the branch it takes.                                          *)
(***************************************************************************)
\* the branches of migrate_file with the useParams() test put before the
\* params prop test
migrate_hook_first(original) ==
    IF already_migrated(original)
    THEN [variant |-> "AlreadyMigrated", param_name |-> None,
          content |-> original]
    ELSE LET name == detect_param_name(original)
             imported == add_use_import(original)
         IN  IF uses_hook(imported)
             THEN [variant |-> "HookPattern", param_name |-> name,
                   content |-> migrate_hook(imported, name)]
             ELSE IF uses_params_prop(imported)
             THEN [variant |-> "ParamsPropPattern", param_name |-> name,
                   content |-> migrate_params_prop(imported, name)]
             ELSE [variant |-> "Unrecognized", param_name |-> name,
                   content |-> imported]

migrate(original) ==
    IF already_migrated(original)
    THEN [variant |-> "AlreadyMigrated", param_name |-> None,
          content |-> original]
    ELSE LET name == detect_param_name(original)
             imported == add_use_import(original)
         IN  IF uses_params_prop(imported)
             THEN [variant |-> "ParamsPropPattern", param_name |-> name,
                   content |-> migrate_params_prop(imported, name)]
             ELSE IF uses_hook(imported)
             THEN [variant |-> "HookPattern", param_name |-> name,
                   content |-> migrate_hook(imported, name)]
             ELSE [variant |-> "Unrecognized", param_name |-> name,
                   content |-> imported]

(***************************************************************************)
(* Input texts.                                                            *)
(***************************************************************************)
ArgAlphabet == {"a", "1", ",", " ", "'", "{", "}", "(", ")"}

RECURSIVE SeqsUpTo(_, _)
SeqsUpTo(S, n) ==
    IF n = 0 THEN {<<>>}
    ELSE LET P == SeqsUpTo(S, n - 1)
         IN  P \cup {Append(s, c) : s \in {t \in P : Len(t) = n - 1}, c \in S}

ArgStrings == SeqsUpTo(ArgAlphabet, MaxArgLen)

\* ;\nlog.warn('m', x, y);
SecondCall ==
    <<";", "\n", "log", ".", "warn", "(", "'", "m", "'", ",", " ", "x", ",",
      " ", "y", ")", ";">>

\* one call with every argument text, and two calls with the short ones
LogTexts ==
    { <<"log", ".", "error", "(">> \o a \o <<")">> : a \in ArgStrings }
    \cup
    { <<"log", ".", "info", "(">> \o a \o <<")">> \o SecondCall :
        a \in {b \in ArgStrings : Len(b) + 2 <= MaxArgLen} }

(***************************************************************************)
(* The file transform driver of fix-logger-calls.py.                       *)
(***************************************************************************)
fix_file ==
    /\ script = "fix-logger-calls"
    /\ runs < MaxRuns
    /\ \E new \in {LogSub(disk, 1)} :
           /\ original_content' = disk
           /\ content' = new
           /\ sites' = FindCalls(disk, 1)
           /\ IF new # disk
              THEN /\ disk' = new
                   /\ written' = TRUE
                   /\ outcome' = "modified"
              ELSE /\ disk' = disk
                   /\ written' = FALSE
                   /\ outcome' = "skipped"
    /\ runs' = runs + 1
    /\ UNCHANGED <<script, variant, param_name>>
    /\ UNCHANGED tokVars
    /\ UNCHANGED batchVars

(***************************************************************************)
(* Page texts for migrate-params.py, put together from these pieces.       *)
(***************************************************************************)
\* import { useState } from "react";
ReactImportLine ==
    <<"import", " ", "{", " ", "useState", " ", "}", " ", "from", " ",
      "\"", "react", "\"", ";", "\n">>

\* import { useParams } from "next/navigation";
HookImportLine ==
    <<"import", " ", "{", " ", "useParams", " ", "}", " ", "from", " ",
      "\"", "next", "/", "navigation", "\"", ";", "\n">>

\* // trackingNumber
TrackingNote ==
    <<"/", "/", " ", "trackingNumber", "\n">>

\* interface PageProps { params: { id: string } }
IdInterface ==
    <<"interface", " ", "PageProps", " ", "{", " ", "params", ":", " ",
      "{", " ", "id", ":", " ", "string", " ", "}", " ", "}", "\n">>

\* export default function Page({ params }: PageProps) {
PropComponent ==
    <<"export", " ", "default", " ", "function", " ", "Page", "(", "{",
      " ", "params", " ", "}", ":", " ", "PageProps", ")", " ", "{">>

\* export default function Page() {
HookComponent ==
    <<"export", " ", "default", " ", "function", " ", "Page", "(", ")",
      " ", "{">>

\* const Page = ({ params }: PageProps) => {
ArrowComponent ==
    <<"const", " ", "Page", " ", "=", " ", "(", "{", " ", "params", " ",
      "}", ":", " ", "PageProps", ")", " ", "=", ">", " ", "{">>

\*   const params = useParams();
HookCall ==
    <<" ", " ", "const", " ", "params", " ", "=", " ", "useParams", "(",
      ")", ";">>

\*   const taskId = params.id as string;
Extraction ==
    <<" ", " ", "const", " ", "taskId", " ", "=", " ", "params", ".", "id",
      " ", "as", " ", "string", ";">>

\*   return params.id;
ReturnMember ==
    <<" ", " ", "return", " ", "params", ".", "id", ";">>

\*   return taskId;
ReturnLegacy ==
    <<" ", " ", "return", " ", "taskId", ";">>

\*   const { id } = use(params);
UnwrappedBody ==
    <<" ", " ", "const", " ", "{", " ", "id", " ", "}", " ", "=", " ",
      "use", "(", "params", ")", ";">>

\* }
CloseBrace ==
    <<"}">>


\*   return id;
ReturnId ==
    <<" ", " ", "return", " ", "id", ";">>

Choice(piece) == {<<>>, piece}

\* each statement followed by the end-of-line chunk
RECURSIVE Lines(_, _)
Lines(stmts, eol) ==
    IF stmts = <<>> THEN <<>>
    ELSE Head(stmts) \o <<eol>> \o Lines(Tail(stmts), eol)

Bodies ==
    { <<ReturnMember>>,
      <<Extraction, ReturnLegacy>>,
      <<Extraction, ReturnMember>>,
      <<UnwrappedBody, ReturnId>> }

\* imports, an optional note and interface, a declaration, what follows its
\* opening brace, the statements and the closing brace
ParamsTexts ==
    { react \o hook[1] \o note \o iface \o decl \o <<afterBrace>>
      \o Lines(hook[2] \o body \o <<CloseBrace>>, eol) :
        react \in Choice(ReactImportLine),
        hook \in {<< <<>>, <<>> >>, <<HookImportLine, <<HookCall>> >>},
        note \in Choice(TrackingNote),
        iface \in Choice(IdInterface),
        decl \in {<<>>, PropComponent, HookComponent, ArrowComponent},
        afterBrace \in {"\n", " "},
        eol \in {"\n", " "},
        body \in Bodies }

(***************************************************************************)
(* The file transform driver of migrate-params.py.                         *)
(***************************************************************************)
\* a driver without the early returns of lines 36-38 and 186-188: whatever
\* branch was taken, the text is written when it differs from the text read
migrate_file_without_returns ==
    /\ script = "migrate-params"
    /\ runs < MaxRuns
    /\ \E m \in {migrate(disk)} :
           /\ original_content' = disk
           /\ content' = m.content
           /\ variant' = m.variant
           /\ param_name' = m.param_name
           /\ IF m.content # disk
              THEN /\ disk' = m.content
                   /\ written' = TRUE
                   /\ outcome' = "modified"
              ELSE /\ disk' = disk
                   /\ written' = FALSE
                   /\ outcome' = "skipped"
    /\ runs' = runs + 1
    /\ UNCHANGED <<script, sites>>
    /\ UNCHANGED tokVars
    /\ UNCHANGED batchVars

migrate_file ==
    /\ script = "migrate-params"
    /\ runs < MaxRuns
    /\ \E m \in {migrate(disk)} :
           /\ original_content' = disk
           /\ content' = m.content
           /\ variant' = m.variant
           /\ param_name' = m.param_name
           /\ IF /\ m.variant \in {"ParamsPropPattern", "HookPattern"}
                 /\ m.content # disk
              THEN /\ disk' = m.content
                   /\ written' = TRUE
                   /\ outcome' = "modified"
              ELSE /\ disk' = disk
                   /\ written' = FALSE
                   /\ outcome' = "skipped"
    /\ runs' = runs + 1
    /\ UNCHANGED <<script, sites>>
    /\ UNCHANGED tokVars
    /\ UNCHANGED batchVars

(***************************************************************************)
(* The tokenizer loop, one character per step.                             *)
(***************************************************************************)
TokIdle == args = <<>> /\ pos = 0 /\ tok = TokInit

ScanChar ==
    /\ pos >= 1
    /\ pos <= Len(args)
    /\ tok' = TokStep(tok, args[pos])
    /\ pos' = pos + 1
    /\ UNCHANGED args
    /\ UNCHANGED driverVars
    /\ UNCHANGED batchVars

FinishScan ==
    /\ pos = Len(args) + 1
    /\ tok' = TokFinish(tok)
    /\ pos' = pos + 1
    /\ UNCHANGED args
    /\ UNCHANGED driverVars
    /\ UNCHANGED batchVars

TokDone == pos = Len(args) + 2

\* no batch is running
BatchIdle ==
    /\ files = <<>>
    /\ file_index = 0
    /\ fixed_count = 0
    /\ printed = <<>>
    /\ modified_files = <<>>
    /\ skipped_files = <<>>
    /\ stage = "idle"

DriverIdle ==
    /\ disk = <<>>
    /\ original_content = <<>>
    /\ content = <<>>
    /\ outcome = "none"
    /\ written = FALSE
    /\ runs = 0
    /\ sites = <<>>
    /\ variant = "none"
    /\ param_name = None

\* group(2) of the call-site pattern starts with [^)]+ : it is never empty
InitTokenizer ==
    /\ script = "tokenizer"
    /\ DriverIdle
    /\ args \in ArgStrings \ {<<>>}
    /\ pos = 1
    /\ tok = TokInit
    /\ BatchIdle

NextTokenizer == ScanChar \/ FinishScan

SpecTokenizer == InitTokenizer /\ [][NextTokenizer]_vars

InitLogging ==
    /\ script = "fix-logger-calls"
    /\ disk \in LogTexts
    /\ original_content = <<>>
    /\ content = <<>>
    /\ outcome = "none"
    /\ written = FALSE
    /\ runs = 0
    /\ sites = <<>>
    /\ variant = "none"
    /\ param_name = None
    /\ TokIdle
    /\ BatchIdle

InitParams ==
    /\ script = "migrate-params"
    /\ disk \in ParamsTexts
    /\ original_content = <<>>
    /\ content = <<>>
    /\ outcome = "none"
    /\ written = FALSE
    /\ runs = 0
    /\ sites = <<>>
    /\ variant = "none"
    /\ param_name = None
    /\ TokIdle
    /\ BatchIdle

SpecLogging == InitLogging /\ [][fix_file]_vars

SpecParams == InitParams /\ [][migrate_file]_vars

Init == InitLogging \/ InitParams

Next == fix_file \/ migrate_file

Spec == Init /\ [][Next]_vars

(***************************************************************************)
(* The batch loops of the two main functions.  A listed file has a text    *)
(* and a fault: whether the path exists, and whether opening it for        *)
(* reading or for writing raises.                                          *)
(***************************************************************************)
\* none: every call succeeds; missing: Path(file_path).exists() is false;
\* read: open(file_path, 'r') or f.read() raises (permission, encoding);
\* write: open(file_path, 'w') raises (permission)
Faults == {"none", "missing", "read", "write"}

\* log.error('a', a) is rewritten, log.error('a') is left as it is
BatchLogTexts ==
    { <<"log", ".", "error", "(", "'", "a", "'", ",", " ", "a", ")">>,
      <<"log", ".", "error", "(", "'", "a", "'", ")">> }

\* a params prop page, a migrated page and a page of neither pattern
BatchParamsTexts ==
    { IdInterface \o PropComponent \o <<"\n">>
        \o Lines(<<ReturnMember, CloseBrace>>, "\n"),
      IdInterface \o PropComponent \o <<"\n">>
        \o Lines(<<UnwrappedBody, ReturnId, CloseBrace>>, "\n"),
      HookComponent \o <<"\n">> \o Lines(<<ReturnLegacy, CloseBrace>>, "\n") }

\* re.sub(pattern, fix_logger_call, content) of each listed text
BatchLogResult == [t \in BatchLogTexts |-> LogSub(t, 1)]

\* the branch and the text migrate_file arrives at for each listed text
BatchParamsResult == [t \in BatchParamsTexts |-> migrate(t)]

FileLists(texts) ==
    UNION { [1..n -> [content : texts, fault : Faults]] : n \in 1..MaxFiles }

\* fix_file as main sees it: the value returned and the text left in the
\* file.  Every exception is caught and turned into False.
fix_file_returns(f) ==
    IF f.fault = "read"
    THEN [raised |-> FALSE, returned |-> FALSE, content |-> f.content]
    ELSE LET new == BatchLogResult[f.content]
         IN  IF new = f.content
             THEN [raised |-> FALSE, returned |-> FALSE, content |-> f.content]
             ELSE IF f.fault = "write"
             THEN [raised |-> FALSE, returned |-> FALSE, content |-> f.content]
             ELSE [raised |-> FALSE, returned |-> TRUE, content |-> new]

\* migrate_file as main sees it: whether an exception leaves it, the value
\* returned and the text left in the file.  Nothing is caught.
migrate_file_returns(f) ==
    IF f.fault = "read"
    THEN [raised |-> TRUE, returned |-> FALSE, content |-> f.content]
    ELSE LET m == BatchParamsResult[f.content]
         IN  IF \/ m.variant \notin {"ParamsPropPattern", "HookPattern"}
                \/ m.content = f.content
             THEN [raised |-> FALSE, returned |-> FALSE, content |-> f.content]
             ELSE IF f.fault = "write"
             THEN [raised |-> TRUE, returned |-> FALSE, content |-> f.content]
             ELSE [raised |-> FALSE, returned |-> TRUE, content |-> m.content]

\* fix-logger-calls main, one pass of the loop of lines 137-146
logger_main_iteration ==
    /\ script = "fix-logger-calls"
    /\ stage = "loop"
    /\ file_index <= Len(files)
    /\ IF files[file_index].fault = "missing"
       THEN UNCHANGED <<files, fixed_count, printed>>
       ELSE \E r \in {fix_file_returns(files[file_index])} :
               /\ files' = [files EXCEPT ![file_index].content = r.content]
               /\ fixed_count' = IF r.returned THEN fixed_count + 1
                                 ELSE fixed_count
               /\ printed' = Append(printed,
                                    [file |-> file_index,
                                     line |-> IF r.returned THEN "Fixed"
                                              ELSE "No changes"])
    /\ file_index' = file_index + 1
    /\ UNCHANGED <<modified_files, skipped_files, stage>>
    /\ UNCHANGED driverVars
    /\ UNCHANGED tokVars

\* fix-logger-calls main, line 148: the loop is over
logger_main_summary ==
    /\ script = "fix-logger-calls"
    /\ stage = "loop"
    /\ file_index = Len(files) + 1
    /\ stage' = "summary"
    /\ UNCHANGED <<files, file_index, fixed_count, printed, modified_files,
                   skipped_files>>
    /\ UNCHANGED driverVars
    /\ UNCHANGED tokVars

\* migrate-params main, one pass of the loop of lines 242-250; an exception
\* that leaves migrate_file leaves main too and ends the process
params_main_iteration ==
    /\ script = "migrate-params"
    /\ stage = "loop"
    /\ file_index <= Len(files)
    /\ IF files[file_index].fault = "missing"
       THEN /\ skipped_files' = Append(skipped_files, file_index)
            /\ file_index' = file_index + 1
            /\ UNCHANGED <<files, modified_files, stage>>
       ELSE \E r \in {migrate_file_returns(files[file_index])} :
               IF r.raised
               THEN /\ stage' = "aborted"
                    /\ UNCHANGED <<files, file_index, modified_files,
                                   skipped_files>>
               ELSE /\ files' = [files EXCEPT ![file_index].content = r.content]
                    /\ modified_files' =
                          IF r.returned THEN Append(modified_files, file_index)
                          ELSE modified_files
                    /\ skipped_files' =
                          IF r.returned THEN skipped_files
                          ELSE Append(skipped_files, file_index)
                    /\ file_index' = file_index + 1
                    /\ UNCHANGED stage
    /\ UNCHANGED <<fixed_count, printed>>
    /\ UNCHANGED driverVars
    /\ UNCHANGED tokVars

\* migrate-params main, lines 252-257: the loop is over
params_main_summary ==
    /\ script = "migrate-params"
    /\ stage = "loop"
    /\ file_index = Len(files) + 1
    /\ stage' = "summary"
    /\ UNCHANGED <<files, file_index, fixed_count, printed, modified_files,
                   skipped_files>>
    /\ UNCHANGED driverVars
    /\ UNCHANGED tokVars

\* the loop of fix-logger-calls is entered with a list that is not empty
\* (line 129) and fixed_count = 0 (line 136); the list of migrate-params is
\* the literal of lines 203-233 and both result lists start empty (239-240)
InitBatch ==
    /\ \/ script = "fix-logger-calls" /\ files \in FileLists(BatchLogTexts)
       \/ script = "migrate-params" /\ files \in FileLists(BatchParamsTexts)
    /\ file_index = 1
    /\ fixed_count = 0
    /\ printed = <<>>
    /\ modified_files = <<>>
    /\ skipped_files = <<>>
    /\ stage = "loop"
    /\ DriverIdle
    /\ TokIdle

NextBatch ==
    \/ logger_main_iteration
    \/ logger_main_summary
    \/ params_main_iteration
    \/ params_main_summary

SpecBatch == InitBatch /\ [][NextBatch]_vars

\* main runs to its end: a step that can be taken is taken
SpecBatchLive == SpecBatch /\ WF_vars(NextBatch)

(***************************************************************************)
(* Properties of the logging recipe.                                       *)
(***************************************************************************)
LoggingRan == script = "fix-logger-calls" /\ runs >= 1

\* C1: Logging recipe idempotence.  A second fix_file call on the text the
\* first one left in the file changes nothing: the text stored after it is
\* the text it read, whatever quotes, parentheses or braces the arguments hold.
C1_LoggingIdempotent ==
    (script = "fix-logger-calls" /\ runs >= 2) => disk = original_content

\* the quote that is open and the brackets that are open, innermost last,
\* after the first n chunks of a; ok is FALSE once a closing bracket met no
\* opening partner
Closer(c) == IF c = "(" THEN ")" ELSE "}"

RECURSIVE Nesting(_, _)
Nesting(a, n) ==
    IF n = 0 THEN [quote |-> None, open |-> <<>>, ok |-> TRUE]
    ELSE LET p == Nesting(a, n - 1)
             c == a[n]
         IN  IF p.quote # None
             THEN IF c = p.quote THEN [p EXCEPT !.quote = None] ELSE p
             ELSE IF c \in QuoteChars THEN [p EXCEPT !.quote = c]
             ELSE IF c \in {"(", "{"} THEN [p EXCEPT !.open = Append(@, c)]
             ELSE IF c \in {")", "}"}
             THEN IF p.open # <<>> /\ Closer(p.open[Len(p.open)]) = c
                  THEN [p EXCEPT !.open = SubSeq(@, 1, Len(@) - 1)]
                  ELSE [p EXCEPT !.ok = FALSE]
             ELSE p

\* balanced quotes and brackets
WellFormed(a) ==
    LET e == Nesting(a, Len(a))
    IN  e.ok /\ e.quote = None /\ e.open = <<>>

\* chunk n of a is outside every string
Outside(a, n) == Nesting(a, n - 1).quote = None

\* the occurrences of c outside strings among the first n chunks of a
Count(a, n, c) == Cardinality({i \in 1..n : a[i] = c /\ Outside(a, i)})

\* a comma outside every string with as many "(" as ")" and as many "{" as
\* "}" before it
TopLevelComma(a, n) ==
    /\ a[n] = ","
    /\ Outside(a, n)
    /\ Count(a, n - 1, "(") = Count(a, n - 1, ")")
    /\ Count(a, n - 1, "{") = Count(a, n - 1, "}")

TopLevelCommas(a, n) == {i \in 1..n : TopLevelComma(a, i)}

\* the text after the last top-level comma (the whole text without one)
LastFragment(a) ==
    LET commas == TopLevelCommas(a, Len(a))
    IN  IF commas = {} THEN a
        ELSE SubSeq(a, MaxOf(commas) + 1, Len(a))

Blank(a) == \A i \in 1..Len(a) : IsSpace(a[i])

\* C3 as the specification words it: for a well-formed argument text the
\* tokenizer returns as many fragments as there are top-level commas plus
\* one, none of them with an unmatched quote or bracket.
C3_FragmentsAreCommasPlusOne ==
    (script = "tokenizer" /\ TokDone /\ WellFormed(args)) =>
        /\ Len(tok.arg_parts) = Cardinality(TopLevelCommas(args, Len(args))) + 1
        /\ \A k \in 1..Len(tok.arg_parts) : WellFormed(tok.arg_parts[k])

\* C3: Tokenizer balance.  While the loop runs, the fragments closed so far
\* are as many as the commas read outside every string with both depth
\* counters at zero, for every argument text.  After the loop, a well-formed
\* text has given one fragment per top-level comma, and one more when the
\* text after the last top-level comma is not blank; no fragment has an
\* unmatched quote or bracket.
C3_TokenizerBalance ==
    script = "tokenizer" =>
        /\ pos <= Len(args) + 1 =>
              Len(tok.arg_parts) = Cardinality(TopLevelCommas(args, pos - 1))
        /\ (TokDone /\ WellFormed(args)) =>
              /\ Len(tok.arg_parts) =
                    Cardinality(TopLevelCommas(args, Len(args)))
                    + (IF Blank(LastFragment(args)) THEN 0 ELSE 1)
              /\ \A k \in 1..Len(tok.arg_parts) : WellFormed(tok.arg_parts[k])

\* a well-formed text with a comma inside brackets or a string and a
\* top-level comma has been scanned to its end
C3_Witness ==
    /\ script = "tokenizer"
    /\ TokDone
    /\ WellFormed(args)
    /\ TopLevelCommas(args, Len(args)) # {}
    /\ \E n \in 1..Len(args) : args[n] = "," /\ ~TopLevelComma(args, n)

\* letters/underscore followed by letters/digits/underscores
BareIdentifier(e) ==
    /\ e # <<>>
    /\ \A i \in 1..Len(e) : IsWord(e[i])
    /\ e[1] \notin DigitChunks

\* the property of the n-th remaining element (n counted from 1)
PolicyEntry(n, e) ==
    IF BareIdentifier(e) THEN e
    ELSE <<"arg" \o ToString(n), ":", " ">> \o e

\* the properties of the remaining elements from the n-th on, ", " between
RECURSIVE PolicyEntries(_, _)
PolicyEntries(rest, n) ==
    IF n > Len(rest) THEN <<>>
    ELSE (IF n > 1 THEN <<",", " ">> ELSE <<>>)
         \o PolicyEntry(n, rest[n]) \o PolicyEntries(rest, n + 1)

\* what the policy gives for a call of the level with the tokenized
\* argument list parts, whole being the call as it stands
PolicyResult(level, parts, whole) ==
    IF Len(parts) <= 1 THEN whole
    ELSE IF /\ Len(parts) = 2
            /\ parts[2] # <<>>
            /\ parts[2][1] = "{"
            /\ parts[2][Len(parts[2])] = "}"
    THEN whole
    ELSE <<"log", ".", level, "(">> \o parts[1] \o <<",", " ", "{", " ">>
         \o PolicyEntries(Tail(parts), 1) \o <<" ", "}", ")">>

\* the text t with the sites k.. replaced, the sites before k being done up
\* to index from
RECURSIVE Spliced(_, _, _, _)
Spliced(t, ss, k, from) ==
    IF k > Len(ss) THEN SubSeq(t, from, Len(t))
    ELSE SubSeq(t, from, ss[k].start - 1) \o ss[k].replacement
         \o Spliced(t, ss, k + 1, ss[k].end + 1)

\* C4: Logging recipe result.  Every call site is replaced by what the
\* policy gives for its tokenized argument list: the call unchanged for 0 or
\* 1 elements and for 2 elements whose second is an object literal, else
\* log.<level>(<first>, { e1, ..., ek }) with each remaining element itself
\* when a bare identifier and 'arg<i>: <element>' otherwise, i counted from 1;
\* the text produced is the text read with these replacements.
C4_PolicyResult ==
    LoggingRan =>
        /\ \A k \in 1..Len(sites) :
              sites[k].replacement =
                  PolicyResult(sites[k].level,
                               split_args(sites[k].rawArguments),
                               SubSeq(original_content, sites[k].start,
                                      sites[k].end))
        /\ content = Spliced(original_content, sites, 1, 1)

\* a call with three elements was rewritten: the second remaining element
\* is numbered arg2 and the first is a bare identifier
C4_Witness ==
    /\ LoggingRan
    /\ \E k \in 1..Len(sites) :
          LET parts == split_args(sites[k].rawArguments)
          IN  /\ Len(parts) = 3
              /\ BareIdentifier(parts[2])
              /\ ~BareIdentifier(parts[3])
              /\ Contains(sites[k].replacement, <<"arg2", ":", " ">>)
              /\ Contains(content, sites[k].replacement)

\* the index of the ")" that closes the "(" at index o of t: the first ")"
\* after o with as many "(" as ")" between the two; 0 when there is none
ClosingParen(t, o) ==
    LET between(q, c) == Cardinality({i \in (o + 1)..(q - 1) : t[i] = c})
        closers == {q \in (o + 1)..Len(t) :
                        t[q] = ")" /\ between(q, "(") = between(q, ")")}
    IN  IF closers = {} THEN 0 ELSE MinOf(closers)

\* the argument text between o and q holds one parenthesized sub-expression
\* and no quote
OneNestedPair(t, o, q) ==
    /\ Cardinality({i \in (o + 1)..(q - 1) : t[i] = "("}) = 1
    /\ Cardinality({i \in (o + 1)..(q - 1) : t[i] = ")"}) = 1
    /\ \A i \in (o + 1)..(q - 1) : t[i] \notin QuoteChars

\* C10: Call-site boundary.  For a call whose argument text holds one nested
\* parenthesized sub-expression, the matched site ends at the call's own
\* closing parenthesis and rawArguments is the whole text between the outer
\* parentheses.
C10_CallSiteBoundary ==
    LoggingRan =>
        \A k \in 1..Len(sites) :
            LET o == sites[k].start + 3
                q == ClosingParen(original_content, o)
            IN  (q # 0 /\ OneNestedPair(original_content, o, q)) =>
                    /\ sites[k].end = q
                    /\ sites[k].rawArguments =
                           SubSeq(original_content, o + 1, q - 1)

(***************************************************************************)
(* Properties of the params recipe.                                        *)
(***************************************************************************)
ParamsRan == script = "migrate-params" /\ runs >= 1

\* C2: Params recipe idempotence.  A second migrate_file call on the text
\* the first one left in the file changes nothing: the text stored after it
\* is the text it read, for every classification and also when the function
\* declaration or the newline after its opening brace is missing.
C2_ParamsIdempotent ==
    (script = "migrate-params" /\ runs >= 2) => disk = original_content

Variants ==
    {"AlreadyMigrated", "ParamsPropPattern", "HookPattern", "Unrecognized"}

\* C5: Classifier exclusivity and order.  One of the four variants is
\* selected for the text read, the first of the rules that applies to it: the
\* unwrap call form gives AlreadyMigrated whatever else the text holds, else
\* a params prop marker gives ParamsPropPattern even with a hook call, else
\* a hook call gives HookPattern, else Unrecognized.
C5_ClassifierOrder ==
    ParamsRan =>
        /\ variant \in Variants
        /\ variant = "AlreadyMigrated" <=> already_migrated(original_content)
        /\ variant = "ParamsPropPattern" <=>
              /\ ~already_migrated(original_content)
              /\ uses_params_prop(original_content)
        /\ variant = "HookPattern" <=>
              /\ ~already_migrated(original_content)
              /\ ~uses_params_prop(original_content)
              /\ uses_hook(original_content)

\* a text with a params prop marker and a hook call was classified
C5_Witness ==
    /\ ParamsRan
    /\ uses_params_prop(original_content)
    /\ uses_hook(original_content)
    /\ ~already_migrated(original_content)
    /\ variant = "ParamsPropPattern"

\* C6: Write-iff-changed.  After every driver call of either script the file
\* was written exactly when 'modified' was returned, which is exactly when
\* the text stored differs from the text read; a file classified
\* AlreadyMigrated or Unrecognized keeps its text and is 'skipped', also when
\* the import injection changed the text in memory.
C6_WriteIffChanged ==
    runs >= 1 =>
        /\ written <=> outcome = "modified"
        /\ outcome = "modified" <=> disk # original_content
        /\ outcome \in {"modified", "skipped"}
        /\ variant \in {"AlreadyMigrated", "Unrecognized"} =>
              disk = original_content /\ outcome = "skipped"

\* an Unrecognized file whose text in memory had the import injected
C6_Witness ==
    /\ ParamsRan
    /\ variant = "Unrecognized"
    /\ content # original_content
    /\ disk = original_content
    /\ outcome = "skipped"
    /\ ~written

\* const { NAME } = use(params);
Binding(name) ==
    <<"const", " ", "{", " ", name, " ", "}", " ", "=", " ",
      "use", "(", "params", ")", ";">>

\* params: { NAME: string }
PlainAnnotation(name) ==
    <<"params", ":", " ", "{", " ", name, ":", " ", "string", " ", "}">>

\* params: Promise<{ NAME: string }>
WrappedAnnotation(name) ==
    <<"params", ":", " ", "Promise", "<", "{", " ", name, ":", " ",
      "string", " ", "}", ">">>

\* C7: Params prop migration.  For a ParamsPropPattern file with the
\* annotation 'params: { Name: string }' and the component function
\* 'export default function Page({ params }: PageProps) {', the migrated text
\* has the annotation wrapped in Promise<...>, has the binding
\* 'const { Name } = use(params);' as the first thing after the function's
\* opening brace, wherever the body's first statement sits, and has no
\* 'params.Name' left.
C7_ParamsPropMigration ==
    (/\ ParamsRan
     /\ variant = "ParamsPropPattern"
     /\ Contains(original_content, PlainAnnotation(param_name))
     /\ Contains(original_content, PropComponent)) =>
        /\ Contains(content, WrappedAnnotation(param_name))
        /\ \E i \in 1..Len(content) :
              /\ LitAt(content, i, PropComponent)
              /\ LitAt(content, SkipSpaces(content, i + Len(PropComponent)),
                       Binding(param_name))
        /\ ~Contains(content, <<"params", ".", param_name>>)

\* interface PageProps {\n  params: Promise<{ NAME: string }>;\n}\n\n
PagePropsType(name) ==
    <<"interface", " ", "PageProps", " ", "{", "\n", " ", " ">>
    \o WrappedAnnotation(name) \o <<";", "\n", "}", "\n", "\n">>

\* export default function Page({ params }: PageProps)
RewrittenDeclaration ==
    <<"export", " ", "default", " ", "function", " ", "Page", "(", "{", " ",
      "params", " ", "}", ":", " ", "PageProps", ")">>

LegacyNames == {LegacyIds[k] : k \in 1..Len(LegacyIds)}

\* C8: Hook migration.  For a HookPattern file with
\* 'const params = useParams();', 'const taskId = params.id as string;' and
\* 'export default function Page()', the migrated text has the PageProps type
\* with params: Promise<{ Name: string }> immediately above the declaration,
\* the parameter list '({ params }: PageProps)', the binding
\* 'const { Name } = use(params);', and every legacy identifier renamed to
\* the name that binding binds.
C8_HookMigration ==
    (/\ ParamsRan
     /\ variant = "HookPattern"
     /\ Contains(original_content,
                 <<"const", " ", "params", " ", "=", " ", "useParams", "(",
                   ")", ";">>)
     /\ Contains(original_content,
                 <<"const", " ", "taskId", " ", "=", " ", "params", ".",
                   "id", " ", "as", " ", "string", ";">>)
     /\ Contains(original_content, HookComponent)) =>
        /\ Contains(content, PagePropsType(param_name) \o RewrittenDeclaration)
        /\ Contains(content, Binding(param_name))
        /\ \A i \in 1..Len(content) : content[i] \notin LegacyNames
        /\ Contains(original_content, <<"return", " ", "taskId", ";">>) =>
              Contains(content, <<"return", " ", param_name, ";">>)

\* C9: Hook removal step.  After the HookPattern recipe the hook's import
\* entry and the whole line 'const params = useParams();' are gone, with no
\* 'const params =' left of it, and so are the extraction statements
\* 'const <legacy>Id = params.id as string;'.
C9_HookRemoved ==
    (ParamsRan /\ variant = "HookPattern") =>
        /\ \A i \in 1..Len(content) : content[i] # "useParams"
        /\ ~Contains(content, <<"const", " ", "params", " ", "=">>)
        /\ ~Contains(content,
                     <<"=", " ", "params", ".", "id", " ", "as", " ",
                       "string", ";">>)

\* the declaration anchor of the variant taken: the pattern whose match the
\* insertion steps of that variant start from
DeclarationAnchor ==
    IF variant = "ParamsPropPattern" THEN P_component_with_params
    ELSE P_export_default_function

\* the text read has no match of the declaration anchor
DeclarationMissing == Search(original_content, DeclarationAnchor) = 0

\* the text read has the declaration but no newline after it
NewlineMissing ==
    /\ ~DeclarationMissing
    /\ IndexOf(original_content, "\n",
               Match(original_content,
                     Search(original_content, DeclarationAnchor),
                     DeclarationAnchor)) = 0

\* C11: Missing-anchor semantics.  When the text read has no
\* 'export default function' declaration for the variant taken, or no newline
\* after it, the later steps of the variant are still applied: after the
\* ParamsPropPattern recipe no 'params.Name' is left, and after the
\* HookPattern recipe no legacy identifier is left.
C11_MissingAnchor ==
    (ParamsRan /\ (DeclarationMissing \/ NewlineMissing)) =>
        /\ variant = "ParamsPropPattern" =>
              ~Contains(content, <<"params", ".", param_name>>)
        /\ variant = "HookPattern" =>
              \A i \in 1..Len(content) : content[i] \notin LegacyNames

(***************************************************************************)
(* Properties of the batch loops.                                          *)
(***************************************************************************)
SomeFileFails == \E k \in 1..Len(files) : files[k].fault # "none"

\* the files reported as modified: the 'Fixed' lines of fix-logger-calls,
\* the modified_files of migrate-params
ReportedModified ==
    IF script = "fix-logger-calls"
    THEN {printed[n].file : n \in {j \in 1..Len(printed) :
                                     printed[j].line = "Fixed"}}
    ELSE {modified_files[n] : n \in 1..Len(modified_files)}

\* the files of the verdict lines, or of the two result lists, in order
Reports ==
    IF script = "fix-logger-calls"
    THEN [n \in 1..Len(printed) |-> printed[n].file]
    ELSE modified_files \o skipped_files

TimesReported(k) == Cardinality({n \in 1..Len(Reports) : Reports[n] = k})

\* fix-logger-calls counts only the files it fixed; migrate-params puts every
\* file in one of its two lists
CountedOnce(k) ==
    IF script = "fix-logger-calls"
    THEN /\ TimesReported(k) <= 1
         /\ fixed_count = Cardinality(ReportedModified)
    ELSE TimesReported(k) = 1

BatchSummary ==
    /\ stage = "summary"
    /\ \A k \in 1..Len(files) : CountedOnce(k)
    /\ \A k \in 1..Len(files) :
          files[k].fault # "none" => k \notin ReportedModified

\* C12: Batch survives per-file failure.  A batch whose list has a file
\* that is missing or cannot be read or written eventually reaches its
\* summary, with every listed file counted exactly once and no such file
\* reported as modified.
C12_BatchSurvivesFailure ==
    (stage = "loop" /\ SomeFileFails) ~> BatchSummary
=============================================================================
